---- MODULE Spec2Model ----
(***************************************************************************)
(* Model of src/cryptenroll/cryptenroll-fido2.c: enroll_fido2() binds a    *)
(* FIDO2 hmac-secret to a LUKS2 volume (new key slot + JSON token), and    *)
(* load_volume_key_fido2() recovers the volume key through such a token.   *)
(* Each call is a little process that runs the function statement by       *)
(* statement; the collaborators (libfido2 helper, libcryptsetup, base64,   *)
(* JSON builder) are modelled by their contracts with failure injected.    *)
(***************************************************************************)
EXTENDS Integers, Sequences, FiniteSets, TLC

(***************************************************************************)
(* Bounds of the model.                                                    *)
(***************************************************************************)
MaxSlots == 2
MaxTokens == 2

(***************************************************************************)
(* Program constants.                                                      *)
(***************************************************************************)
CRYPT_ANY_SLOT == -1
FIDO2ENROLL_PIN == 1
FIDO2ENROLL_UP == 2
FIDO2ENROLL_UV == 4
EPERM == 1
EIO == 5
EAGAIN == 11
ENOMEM == 12
ENODEV == 19
ENOSPC == 28
EBADSLT == 57
ENOSTR == 60
EOWNERDEAD == 130
ENXIO == 6

Procs == {1, 2}
SlotIds == 0..(MaxSlots - 1)
TokenIds == 0..(MaxTokens - 1)

RPID == "io.systemd.cryptsetup"
(* The rp_id argument of fido2_generate_hmac_hash().                       *)
GenerateRpId == "io.systemd.cryptsetup"
TOKEN_TYPE == "systemd-fido2"

(***************************************************************************)
(* Input domains.                                                          *)
(***************************************************************************)
Secrets == {<<255>>, <<255, 0>>, <<0, 16, 131>>}
DeviceCredentials == {[cid |-> <<1>>, salt |-> <<9>>], [cid |-> <<2, 3>>, salt |-> <<8>>]}
Keys == {<<17>>, <<34>>}
LockWithInputs == {FIDO2ENROLL_PIN, FIDO2ENROLL_PIN + FIDO2ENROLL_UP}

(***************************************************************************)
(* FLAGS_SET(v, flag) for a single-bit flag, and setting / clearing a bit. *)
(***************************************************************************)
FLAGS_SET(v, flag) == (v \div flag) % 2 = 1
SetFlag(v, flag) == IF FLAGS_SET(v, flag) THEN v ELSE v + flag

(***************************************************************************)
(* base64mem(): RFC 4648 base64 with padding, over bytes 0..255.  The text *)
(* is a sequence of one-character strings.                                 *)
(***************************************************************************)
B64Alphabet ==
  << "A","B","C","D","E","F","G","H","I","J","K","L","M","N","O","P",
     "Q","R","S","T","U","V","W","X","Y","Z","a","b","c","d","e","f",
     "g","h","i","j","k","l","m","n","o","p","q","r","s","t","u","v",
     "w","x","y","z","0","1","2","3","4","5","6","7","8","9","+","/" >>
B64Char(i) == B64Alphabet[i + 1]

RECURSIVE Base64(_)
Base64(b) ==
  IF Len(b) = 0 THEN <<>>
  ELSE IF Len(b) = 1 THEN
    << B64Char(b[1] \div 4), B64Char((b[1] % 4) * 16), "=", "=" >>
  ELSE IF Len(b) = 2 THEN
    << B64Char(b[1] \div 4),
       B64Char((b[1] % 4) * 16 + (b[2] \div 16)),
       B64Char((b[2] % 16) * 4), "=" >>
  ELSE
    << B64Char(b[1] \div 4),
       B64Char((b[1] % 4) * 16 + (b[2] \div 16)),
       B64Char((b[2] % 16) * 4 + (b[3] \div 64)),
       B64Char(b[3] % 64) >> \o Base64(SubSeq(b, 4, Len(b)))

(***************************************************************************)
(* asprintf("%i", n): the decimal text of an int.                          *)
(***************************************************************************)
Digits == << "0","1","2","3","4","5","6","7","8","9" >>
RECURSIVE DecimalOfNat(_)
DecimalOfNat(n) ==
  IF n < 10 THEN << Digits[n + 1] >>
  ELSE DecimalOfNat(n \div 10) \o << Digits[(n % 10) + 1] >>
FormatInt(n) == IF n < 0 THEN << "-" >> \o DecimalOfNat(-n) ELSE DecimalOfNat(n)

(***************************************************************************)
(* State.                                                                  *)
(*   master  the volume (master) key of the LUKS2 volume                   *)
(*   slots   key slot index -> <<>> (free) or <<[pass, key]>>              *)
(*   tokens  token id -> <<>> (free) or <<token JSON object>>              *)
(*   pbkdf   the PBKDF setting of the crypt_device handle                  *)
(*   active  the processes that issue calls                                *)
(*   inputs  what callers and device may supply in this run                *)
(*   pc      per process: the statement the running call is at             *)
(*   loc     per process: arguments, locals and result of the call         *)
(*   provisioned, enrolled, track : history of what the calls did          *)
(***************************************************************************)
VARIABLES master, slots, tokens, pbkdf, active, inputs, pc, loc,
          provisioned, enrolled, track

vars == << master, slots, tokens, pbkdf, active, inputs, pc, loc,
           provisioned, enrolled, track >>

volume == << master, slots, tokens, pbkdf >>
history == << provisioned, enrolled, track >>
callers == << active, inputs >>

AllInputs ==
  [secrets |-> Secrets, credentials |-> DeviceCredentials,
   keys |-> Keys, lock_with |-> LockWithInputs]

PriorPassphrase == << "p", "w" >>

Buffers == {"cid", "salt", "secret", "base64_encoded", "keyslot_as_string", "v",
            "decrypted_key", "passphrase"}

NoOutcome == [fail |-> "none", r |-> 0]

(* The locals of a call before its first statement (all pointers NULL).    *)
InitLoc ==
  [ op |-> "none",
    volume_key |-> <<>>, lock_with |-> 0, requested |-> 0,
    cid |-> <<>>, salt |-> <<>>, secret |-> <<>>,
    base64_encoded |-> <<>>, base64_encoded_size |-> 0,
    keyslot |-> CRYPT_ANY_SLOT, keyslot_as_string |-> <<>>, v |-> <<>>,
    decrypted_key |-> <<>>, passphrase |-> <<>>, passphrase_size |-> 0,
    ret_vk |-> <<>>, ret_vks |-> 0,
    r |-> 0, fail |-> "none",
    mem |-> [b \in Buffers |-> "null"],
    trace |-> <<>>, dev |-> <<>>, rp_id |-> "", cause |-> "none", added |-> {},
    pre |-> [slots |-> <<>>, tokens |-> <<>>, pbkdf |-> "default"],
    prev |-> NoOutcome ]

Snapshot == [slots |-> slots, tokens |-> tokens, pbkdf |-> pbkdf]

InitVolume ==
  /\ master \in Keys
  /\ slots = [k \in SlotIds |->
                IF k = 0 THEN << [pass |-> PriorPassphrase, key |-> master] >> ELSE <<>>]
  /\ tokens = [t \in TokenIds |-> <<>>]
  /\ pbkdf = "default"
  /\ active = {1}
  /\ inputs = AllInputs
  /\ pc = [p \in Procs |-> "idle"]
  /\ loc = [p \in Procs |-> InitLoc]
  /\ provisioned = {}
  /\ enrolled = {}

Init == InitVolume /\ track = FALSE

(* The same, with the caller keeping the outcome of the previous           *)
(* enrollment call to compare the next one with.                           *)
InitTrack == InitVolume /\ track = TRUE

(***************************************************************************)
(* Collaborators of the storage engine (libcryptsetup and its wrappers).   *)
(***************************************************************************)
FreeSlots(sl) == {k \in SlotIds : sl[k] = <<>>}
FreeTokens(tk) == {t \in TokenIds : tk[t] = <<>>}
Min(S) == CHOOSE x \in S : \A y \in S : x <= y

(* crypt_keyslot_add_by_volume_key(cd, CRYPT_ANY_SLOT, vk, pass): the key  *)
(* must be the volume's key; the first free slot is taken.                 *)
KeyslotAddByVolumeKey(sl, vk, pass) ==
  IF vk # master THEN [rc |-> -EPERM, slots |-> sl]
  ELSE IF FreeSlots(sl) = {} THEN [rc |-> -ENOSPC, slots |-> sl]
  ELSE LET k == Min(FreeSlots(sl))
       IN [rc |-> k, slots |-> [sl EXCEPT ![k] = << [pass |-> pass, key |-> vk] >>]]

(* crypt_volume_key_get(cd, CRYPT_ANY_SLOT, pass): the first slot the      *)
(* passphrase opens gives the key; none gives -EPERM.                      *)
OpenedBy(sl, pass) == {k \in SlotIds : sl[k] # <<>> /\ sl[k][1].pass = pass}
VolumeKeyGet(sl, pass) ==
  IF OpenedBy(sl, pass) = {} THEN [rc |-> -EPERM, vk |-> <<>>]
  ELSE LET k == Min(OpenedBy(sl, pass)) IN [rc |-> k, vk |-> sl[k][1].key]

(* cryptsetup_add_token_json(cd, v): crypt_token_json_set(CRYPT_ANY_TOKEN) *)
AddTokenJson(tk, v) ==
  IF FreeTokens(tk) = {} THEN [rc |-> -ENOSPC, tokens |-> tk]
  ELSE [rc |-> 0, tokens |-> [tk EXCEPT ![Min(FreeTokens(tk))] = << v >>]]

(* The errors each collaborator can fail with (besides the ones above).    *)
GenerateErrors == {ENODEV, EOWNERDEAD, ENOSTR, EIO}
PbkdfErrors == {EIO}
SlotAddErrors == {EIO}
JsonBuildErrors == {ENOMEM}
TokenAddErrors == {ENOMEM}
AcquireErrors == {EAGAIN, ENOSTR, EBADSLT}

(* What the authenticator may answer for the requested lock_with flags:    *)
(* the flags as asked, or with UV forced on.                               *)
EffectiveFlags(req) == {req, SetFlag(req, FIDO2ENROLL_UV)}

(***************************************************************************)
(* What the device-side collaborators can return.                          *)
(***************************************************************************)
(* fido2_generate_hmac_hash(): an error, or a new credential with its salt,*)
(* the hmac secret and the flags the credential is really locked with.     *)
GenerateResults(req) ==
  {[rc |-> -e, cid |-> <<>>, salt |-> <<>>, secret |-> <<>>, flags |-> req] :
      e \in GenerateErrors}
  \cup
  {[rc |-> 0, cid |-> c.cid, salt |-> c.salt, secret |-> s, flags |-> f] :
      c \in inputs.credentials, s \in inputs.secrets, f \in EffectiveFlags(req)}

IsFido2Token(t) == t # <<>> /\ t[1].type = TOKEN_TYPE

(* What the caller of acquire_fido2_key_auto() takes -EAGAIN to mean.      *)
EAGAIN_CAUSES == {"FIDO2 token does not exist", "UV is blocked"}
AcquireCauses(e) == IF e = EAGAIN THEN EAGAIN_CAUSES ELSE {"other"}

(* acquire_fido2_key_auto(): needs a systemd-fido2 token in the header,    *)
(* then the device re-derives a secret or fails for some cause.            *)
AcquireResults(tk) ==
  IF \A t \in TokenIds : ~IsFido2Token(tk[t])
  THEN {[rc |-> -ENXIO, key |-> <<>>, cause |-> "no token data"]}
  ELSE UNION {{[rc |-> -e, key |-> <<>>, cause |-> c] : c \in AcquireCauses(e)} :
                e \in AcquireErrors}
       \cup {[rc |-> 0, key |-> s, cause |-> "none"] : s \in inputs.secrets}

(* base64mem(): the text and its length, or -ENOMEM.                       *)
Base64Results(b) ==
  {[rc |-> -ENOMEM, text |-> <<>>], [rc |-> Len(Base64(b)), text |-> Base64(b)]}

(***************************************************************************)
(* Bookkeeping of a call: buffers that are allocated, collaborators called.*)
(***************************************************************************)
Live(l, bufs) ==
  [l EXCEPT !.mem = [b \in Buffers |-> IF b \in bufs THEN "live" ELSE l.mem[b]]]
Call(l, name, rc) == [l EXCEPT !.trace = Append(l.trace, [op |-> name, rc |-> rc])]
Outcome(l) == [fail |-> l.fail, r |-> l.r]
Carry(l) ==
  IF ~track THEN NoOutcome
  ELSE IF l.op = "enroll" THEN Outcome(l) ELSE l.prev

(***************************************************************************)
(* enroll_fido2()                                                          *)
(***************************************************************************)
(* The _cleanup_ attributes of the locals run on every return.             *)
EnrollErased_Base64Freed == {"salt", "secret"}
EnrollErased == {"salt", "secret", "base64_encoded"}
EnrollCleanup(l) ==
  [l EXCEPT !.cid = <<>>, !.salt = <<>>, !.secret = <<>>, !.base64_encoded = <<>>,
            !.keyslot_as_string = <<>>, !.v = <<>>,
            !.mem = [b \in Buffers |->
                       IF l.mem[b] # "live" THEN l.mem[b]
                       ELSE IF b \in EnrollErased THEN "erased" ELSE "freed"]]

EnrollReturn(l, r, fail) == [EnrollCleanup(l) EXCEPT !.r = r, !.fail = fail]

EnrollBegin(p) ==
  /\ p \in active
  /\ pc[p] \in {"idle", "done"}
  /\ \E vk \in inputs.keys, lw \in inputs.lock_with :
       loc' = [loc EXCEPT ![p] =
                [InitLoc EXCEPT !.op = "enroll", !.volume_key = vk,
                                !.lock_with = lw, !.requested = lw,
                                !.pre = Snapshot, !.prev = Carry(loc[p])]]
  /\ pc' = [pc EXCEPT ![p] = "e_generate"]
  /\ UNCHANGED << volume, callers, history >>

GenerateFailed_OnlyEAGAIN(r) == r = -EAGAIN
GenerateFailed_Ignored(r) == FALSE
GenerateFailed(r) == r < 0
EnrollGenerate(p) ==
  /\ pc[p] = "e_generate"
  /\ \E res \in GenerateResults(loc[p].lock_with) :
       LET l0 == Call(loc[p], "fido2_generate_hmac_hash", res.rc)
           l == [Live(l0, IF res.rc < 0 THEN {} ELSE {"cid", "salt", "secret"}) EXCEPT
                   !.r = res.rc, !.cid = res.cid, !.salt = res.salt,
                   !.secret = res.secret, !.lock_with = res.flags,
                   !.rp_id = GenerateRpId,
                   !.dev = IF res.rc < 0 THEN <<>> ELSE << res >>]
       IN IF GenerateFailed(l.r)
          THEN /\ loc' = [loc EXCEPT ![p] = EnrollReturn(l, l.r, "fido2_generate_hmac_hash")]
               /\ pc' = [pc EXCEPT ![p] = "done"]
          ELSE /\ loc' = [loc EXCEPT ![p] = l]
               /\ pc' = [pc EXCEPT ![p] = "e_base64"]
  /\ UNCHANGED << volume, callers, history >>

EncodeFailed_Never(size) == FALSE
EncodeFailed(size) == size < 0
EnrollEncode(p) ==
  /\ pc[p] = "e_base64"
  /\ \E res \in Base64Results(loc[p].secret) :
       LET l0 == Call(loc[p], "base64mem", res.rc)
           l == [Live(l0, IF res.rc < 0 THEN {} ELSE {"base64_encoded"}) EXCEPT
                   !.base64_encoded = res.text, !.base64_encoded_size = res.rc]
       IN IF EncodeFailed(l.base64_encoded_size)
          THEN /\ loc' = [loc EXCEPT ![p] =
                           EnrollReturn(l, l.base64_encoded_size, "base64mem")]
               /\ pc' = [pc EXCEPT ![p] = "done"]
          ELSE /\ loc' = [loc EXCEPT ![p] = l]
               /\ pc' = [pc EXCEPT ![p] = "e_pbkdf"]
  /\ UNCHANGED << volume, callers, history >>

PbkdfFailed_Ignored(r) == FALSE
PbkdfFailed(r) == r < 0
EnrollPbkdf(p) ==
  /\ pc[p] = "e_pbkdf"
  /\ \E rc \in {0} \cup {-e : e \in PbkdfErrors} :
       LET l == [Call(loc[p], "cryptsetup_set_minimal_pbkdf", rc) EXCEPT !.r = rc]
       IN /\ pbkdf' = IF rc = 0 THEN "minimal" ELSE pbkdf
          /\ IF PbkdfFailed(l.r)
             THEN /\ loc' = [loc EXCEPT ![p] =
                              EnrollReturn(l, l.r, "cryptsetup_set_minimal_pbkdf")]
                  /\ pc' = [pc EXCEPT ![p] = "done"]
             ELSE /\ loc' = [loc EXCEPT ![p] = l]
                  /\ pc' = [pc EXCEPT ![p] = "e_add"]
  /\ UNCHANGED << master, slots, tokens, callers, history >>

(* The passphrase the new key slot is protected with.                      *)
SlotAddPassphrase_RawSecret(l) == l.secret
SlotAddPassphrase(l) == l.base64_encoded
SlotAddFailed_Unchecked(keyslot) == FALSE
SlotAddFailed_OnlyAnySlot(keyslot) == keyslot = CRYPT_ANY_SLOT
SlotAddFailed(keyslot) == keyslot < 0
EnrollAddSlot(p) ==
  /\ pc[p] = "e_add"
  /\ \E res \in {KeyslotAddByVolumeKey(slots, loc[p].volume_key, SlotAddPassphrase(loc[p]))}
                \cup {[rc |-> -e, slots |-> slots] : e \in SlotAddErrors} :
       LET l == [Call(loc[p], "crypt_keyslot_add_by_volume_key", res.rc) EXCEPT
                   !.keyslot = res.rc,
                   !.added = IF res.rc >= 0 THEN {res.rc} ELSE {}]
       IN /\ slots' = res.slots
          /\ provisioned' = IF res.rc >= 0 THEN provisioned \cup {res.rc} ELSE provisioned
          /\ IF SlotAddFailed(l.keyslot)
             THEN /\ loc' = [loc EXCEPT ![p] =
                              EnrollReturn(l, l.keyslot, "crypt_keyslot_add_by_volume_key")]
                  /\ pc' = [pc EXCEPT ![p] = "done"]
             ELSE /\ loc' = [loc EXCEPT ![p] = l]
                  /\ pc' = [pc EXCEPT ![p] = "e_format"]
  /\ UNCHANGED << master, tokens, pbkdf, callers, enrolled, track >>

KeyslotAsString_FormatsR(l) == FormatInt(l.r)
KeyslotAsString_FreeAtEntry(l) == FormatInt(Min(FreeSlots(l.pre.slots)))
(* The text asprintf() formats the slot index to.                          *)
KeyslotAsString(l) == FormatInt(l.keyslot)
EnrollFormat(p) ==
  /\ pc[p] = "e_format"
  /\ \E ok \in BOOLEAN :
       LET l0 == Call(loc[p], "asprintf", IF ok THEN Len(KeyslotAsString(loc[p])) ELSE -1) IN
       IF ~ok
       THEN /\ loc' = [loc EXCEPT ![p] = EnrollReturn(l0, -ENOMEM, "asprintf")]
            /\ pc' = [pc EXCEPT ![p] = "done"]
       ELSE /\ loc' = [loc EXCEPT ![p] =
                        [Live(l0, {"keyslot_as_string"}) EXCEPT
                           !.keyslot_as_string = KeyslotAsString(l0)]]
            /\ pc' = [pc EXCEPT ![p] = "e_build"]
  /\ UNCHANGED << volume, callers, history >>

TokenJson_SwapsCredentialAndSalt(l) ==
  [ type |-> TOKEN_TYPE,
    keyslots |-> << l.keyslot_as_string >>,
    fido2_credential |-> Base64(l.salt),
    fido2_salt |-> Base64(l.cid),
    fido2_rp |-> RPID,
    fido2_clientPin_required |-> FLAGS_SET(l.lock_with, FIDO2ENROLL_PIN),
    fido2_up_required |-> FLAGS_SET(l.lock_with, FIDO2ENROLL_UP),
    fido2_uv_required |-> FLAGS_SET(l.lock_with, FIDO2ENROLL_UV) ]
TokenJson_RequestedFlags(l) ==
  [ type |-> TOKEN_TYPE,
    keyslots |-> << l.keyslot_as_string >>,
    fido2_credential |-> Base64(l.cid),
    fido2_salt |-> Base64(l.salt),
    fido2_rp |-> RPID,
    fido2_clientPin_required |-> FLAGS_SET(l.requested, FIDO2ENROLL_PIN),
    fido2_up_required |-> FLAGS_SET(l.requested, FIDO2ENROLL_UP),
    fido2_uv_required |-> FLAGS_SET(l.requested, FIDO2ENROLL_UV) ]
(* The token object sd_json_buildo() builds from the locals.               *)
TokenJson(l) ==
  [ type |-> TOKEN_TYPE,
    keyslots |-> << l.keyslot_as_string >>,
    fido2_credential |-> Base64(l.cid),
    fido2_salt |-> Base64(l.salt),
    fido2_rp |-> RPID,
    fido2_clientPin_required |-> FLAGS_SET(l.lock_with, FIDO2ENROLL_PIN),
    fido2_up_required |-> FLAGS_SET(l.lock_with, FIDO2ENROLL_UP),
    fido2_uv_required |-> FLAGS_SET(l.lock_with, FIDO2ENROLL_UV) ]

BuildFailed(r) == r < 0
EnrollBuild(p) ==
  /\ pc[p] = "e_build"
  /\ \E rc \in {0} \cup {-e : e \in JsonBuildErrors} :
       LET l0 == Call(loc[p], "sd_json_buildo", rc)
           l == [Live(l0, IF rc < 0 THEN {} ELSE {"v"}) EXCEPT
                   !.r = rc, !.v = IF rc < 0 THEN <<>> ELSE << TokenJson(l0) >>]
       IN IF BuildFailed(l.r)
          THEN /\ loc' = [loc EXCEPT ![p] = EnrollReturn(l, l.r, "sd_json_buildo")]
               /\ pc' = [pc EXCEPT ![p] = "done"]
          ELSE /\ loc' = [loc EXCEPT ![p] = l]
               /\ pc' = [pc EXCEPT ![p] = "e_token"]
  /\ UNCHANGED << volume, callers, history >>

TokenAddFailed_Swallowed(r) == FALSE
TokenAddFailed(r) == r < 0
EnrollResult_ReturnsR(l) == l.r
(* The value a successful enrollment returns.                              *)
EnrollResult(l) == l.keyslot
EnrollToken(p) ==
  /\ pc[p] = "e_token"
  /\ \E res \in {AddTokenJson(tokens, loc[p].v[1])}
                \cup {[rc |-> -e, tokens |-> tokens] : e \in TokenAddErrors} :
       LET l == [Call(loc[p], "cryptsetup_add_token_json", res.rc) EXCEPT !.r = res.rc]
       IN /\ tokens' = res.tokens
          /\ IF TokenAddFailed(l.r)
             THEN /\ loc' = [loc EXCEPT ![p] =
                              EnrollReturn(l, l.r, "cryptsetup_add_token_json")]
                  /\ UNCHANGED enrolled
             ELSE /\ loc' = [loc EXCEPT ![p] = EnrollReturn(l, EnrollResult(l), "none")]
                  /\ enrolled' = enrolled \cup
                       {[secret |-> l.secret, key |-> l.volume_key, slot |-> l.keyslot]}
          /\ pc' = [pc EXCEPT ![p] = "done"]
  /\ UNCHANGED << master, slots, pbkdf, callers, provisioned, track >>

(***************************************************************************)
(* load_volume_key_fido2()                                                 *)
(***************************************************************************)
LoadErased == {"decrypted_key", "passphrase"}
LoadCleanup(l) ==
  [l EXCEPT !.decrypted_key = <<>>, !.passphrase = <<>>,
            !.mem = [b \in Buffers |->
                       IF l.mem[b] # "live" THEN l.mem[b]
                       ELSE IF b \in LoadErased THEN "erased" ELSE "freed"]]

LoadReturn(l, r, fail) == [LoadCleanup(l) EXCEPT !.r = r, !.fail = fail]

LoadBegin(p) ==
  /\ p \in active
  /\ pc[p] \in {"idle", "done"}
  /\ loc' = [loc EXCEPT ![p] =
              [InitLoc EXCEPT !.op = "load", !.pre = Snapshot, !.prev = Carry(loc[p])]]
  /\ pc' = [pc EXCEPT ![p] = "l_acquire"]
  /\ UNCHANGED << volume, callers, history >>

AcquireFailed_NotEAGAIN(r) == r < 0 /\ r # -EAGAIN
AcquireFailed_OnlyEAGAIN(r) == r = -EAGAIN
AcquireFailed(r) == r = -EAGAIN \/ r < 0
LoadAcquire(p) ==
  /\ pc[p] = "l_acquire"
  /\ \E res \in AcquireResults(tokens) :
       LET l0 == Call(loc[p], "acquire_fido2_key_auto", res.rc)
           l == [Live(l0, IF res.rc < 0 THEN {} ELSE {"decrypted_key"}) EXCEPT
                   !.r = res.rc, !.decrypted_key = res.key, !.cause = res.cause,
                   !.dev = IF res.rc < 0 THEN <<>> ELSE << res >>]
       IN IF AcquireFailed(l.r)
          THEN /\ loc' = [loc EXCEPT ![p] = LoadReturn(l, l.r, "acquire_fido2_key_auto")]
               /\ pc' = [pc EXCEPT ![p] = "done"]
          ELSE /\ loc' = [loc EXCEPT ![p] = l]
               /\ pc' = [pc EXCEPT ![p] = "l_base64"]
  /\ UNCHANGED << volume, callers, history >>

LoadEncode(p) ==
  /\ pc[p] = "l_base64"
  /\ \E res \in Base64Results(loc[p].decrypted_key) :
       LET l0 == Call(loc[p], "base64mem", res.rc)
           l == [Live(l0, IF res.rc < 0 THEN {} ELSE {"passphrase"}) EXCEPT
                   !.passphrase = res.text, !.passphrase_size = res.rc]
       IN IF EncodeFailed(l.passphrase_size)
          THEN /\ loc' = [loc EXCEPT ![p] = LoadReturn(l, -ENOMEM, "base64mem")]
               /\ pc' = [pc EXCEPT ![p] = "done"]
          ELSE /\ loc' = [loc EXCEPT ![p] = l]
               /\ pc' = [pc EXCEPT ![p] = "l_get"]
  /\ UNCHANGED << volume, callers, history >>

GetPassphrase_KeySize(l) == SubSeq(l.passphrase, 1, Len(l.decrypted_key))
(* The passphrase the key slots are tried with.                            *)
GetPassphrase(l) == l.passphrase
LoadGet(p) ==
  /\ pc[p] = "l_get"
  /\ LET res == VolumeKeyGet(slots, GetPassphrase(loc[p]))
         l0 == Call(loc[p], "crypt_volume_key_get", res.rc)
         l == [l0 EXCEPT !.r = res.rc, !.ret_vk = res.vk, !.ret_vks = Len(res.vk)]
     IN loc' = [loc EXCEPT ![p] =
                 LoadReturn(l, l.r, IF l.r < 0 THEN "crypt_volume_key_get" ELSE "none")]
  /\ pc' = [pc EXCEPT ![p] = "done"]
  /\ UNCHANGED << volume, callers, history >>

(***************************************************************************)
(* The specification: calls are issued one after the other by process 1,   *)
(* on a volume whose slot 0 holds the passphrase it was formatted with.    *)
(***************************************************************************)
Next ==
  \E p \in Procs :
    \/ EnrollBegin(p)
    \/ EnrollGenerate(p)
    \/ EnrollEncode(p)
    \/ EnrollPbkdf(p)
    \/ EnrollAddSlot(p)
    \/ EnrollFormat(p)
    \/ EnrollBuild(p)
    \/ EnrollToken(p)
    \/ LoadBegin(p)
    \/ LoadAcquire(p)
    \/ LoadEncode(p)
    \/ LoadGet(p)

Spec == Init /\ [][Next]_vars

SpecTrack == InitTrack /\ [][Next]_vars

(***************************************************************************)
(* Two callers working on the same volume at once, their statements        *)
(* interleaved in every order; each collaborator call is one step, i.e.    *)
(* libcryptsetup serializes its accesses to the LUKS2 header.  The volume  *)
(* starts with every slot free, so that both callers can enroll; device    *)
(* and callers supply one value each, the interleavings are what varies.   *)
(***************************************************************************)
ConcInputs ==
  [secrets |-> {<<255, 0>>},
   credentials |-> {[cid |-> <<2, 3>>, salt |-> <<8>>]},
   keys |-> {<<17>>},
   lock_with |-> {FIDO2ENROLL_PIN}]

InitConc ==
  /\ master = <<17>>
  /\ slots = [k \in SlotIds |-> <<>>]
  /\ tokens = [t \in TokenIds |-> <<>>]
  /\ pbkdf = "default"
  /\ active = Procs
  /\ inputs = ConcInputs
  /\ pc = [p \in Procs |-> "idle"]
  /\ loc = [p \in Procs |-> InitLoc]
  /\ provisioned = {}
  /\ enrolled = {}
  /\ track = FALSE

SpecConc == InitConc /\ [][Next]_vars

(***************************************************************************)
(* Vocabulary of the properties.                                           *)
(***************************************************************************)
Ops(l) == {l.trace[i].op : i \in 1..Len(l.trace)}
Invoked(l, name) == name \in Ops(l)
ResultOf(l, name) == l.trace[CHOOSE i \in 1..Len(l.trace) : l.trace[i].op = name].rc
Returned(p, op) == pc[p] = "done" /\ loc[p].op = op
NewSlots(l) == {k \in SlotIds : l.pre.slots[k] = <<>> /\ slots[k] # <<>>}
NewTokens(l) == {t \in TokenIds : l.pre.tokens[t] = <<>> /\ tokens[t] # <<>>}
SlotsKept(l) == \A k \in SlotIds : l.pre.slots[k] # <<>> => slots[k] = l.pre.slots[k]
TokensKept(l) == \A t \in TokenIds : l.pre.tokens[t] # <<>> => tokens[t] = l.pre.tokens[t]
(* Reading a token's "keyslots" entry back as a number.                     *)
DigitValue(c) == CHOOSE d \in 0..9 : Digits[d + 1] = c
RECURSIVE ParseNat(_)
ParseNat(text) ==
  IF Len(text) = 0 THEN 0
  ELSE 10 * ParseNat(SubSeq(text, 1, Len(text) - 1)) + DigitValue(text[Len(text)])
ParseInt(text) ==
  IF Len(text) > 0 /\ text[1] = "-" THEN 0 - ParseNat(Tail(text)) ELSE ParseNat(text)
References(t, k) ==
  /\ tokens[t] # <<>>
  /\ Len(tokens[t][1].keyslots) = 1
  /\ ParseInt(tokens[t][1].keyslots[1]) = k
SlotAddFailedIn(l) ==
  /\ Invoked(l, "crypt_keyslot_add_by_volume_key")
  /\ ResultOf(l, "crypt_keyslot_add_by_volume_key") < 0

(* C1: every persisted TokenRecord references a slot that                   *)
(* crypt_keyslot_add_by_volume_key added successfully, the one of the call  *)
(* that wrote the record; a call whose slot add failed has made no          *)
(* cryptsetup_add_token_json call and written no record.                    *)
C1_TokenOnlyAfterSlot ==
  /\ \A t \in TokenIds : tokens[t] # <<>> =>
       \E k \in provisioned : References(t, k) /\ slots[k] # <<>>
  /\ \A p \in Procs : loc[p].op = "enroll" =>
       /\ \A t \in NewTokens(loc[p]) : \E k \in loc[p].added : References(t, k)
       /\ SlotAddFailedIn(loc[p]) =>
            /\ ~Invoked(loc[p], "cryptsetup_add_token_json")
            /\ NewTokens(loc[p]) = {}

C1_Witness ==
  \E p \in Procs :
    /\ Returned(p, "enroll") /\ loc[p].r >= 0
    /\ \E t \in NewTokens(loc[p]) : References(t, loc[p].r)

(* C2 as claimed: a failing enroll_fido2 leaves the volume as it was or     *)
(* fully enrolled (a new slot and a TokenRecord referencing it).            *)
C2_NeverHalfEnrolled ==
  \A p \in Procs : (Returned(p, "enroll") /\ loc[p].r < 0) =>
    \/ slots = loc[p].pre.slots /\ tokens = loc[p].pre.tokens
    \/ \E k \in NewSlots(loc[p]), t \in NewTokens(loc[p]) : References(t, k)

(* C2 amended: a failing enroll_fido2 never writes a TokenRecord; when it   *)
(* failed up to and including the slot add the slots are as before the      *)
(* call, and when it failed after the slot add exactly the new slot has     *)
(* been added and no TokenRecord references it (an orphan slot).            *)
C2_UnmodifiedOrOrphan ==
  \A p \in Procs : (Returned(p, "enroll") /\ loc[p].r < 0) =>
    /\ tokens = loc[p].pre.tokens
    /\ IF loc[p].added = {}
       THEN slots = loc[p].pre.slots
       ELSE /\ loc[p].fail \in {"asprintf", "sd_json_buildo", "cryptsetup_add_token_json"}
            /\ NewSlots(loc[p]) = loc[p].added
            /\ SlotsKept(loc[p])
            /\ \A k \in loc[p].added, t \in TokenIds : ~References(t, k)

C2_Witness ==
  \E p \in Procs :
    /\ Returned(p, "enroll") /\ loc[p].r < 0
    /\ loc[p].fail = "cryptsetup_add_token_json"
    /\ NewSlots(loc[p]) # {}
    /\ tokens = loc[p].pre.tokens

(* C3: round trip.  A load_volume_key_fido2 that reaches the key slots with *)
(* the secret S of a successful enrollment returns success and the volume   *)
(* key that enrollment was given; with a secret that no successful          *)
(* enrollment used and whose encoding opens no other slot it returns        *)
(* -EPERM (wrong secret) and no key.                                        *)
OtherSlots == {k \in SlotIds : slots[k] # <<>> /\ k \notin {e.slot : e \in enrolled}}
C3_RoundTrip ==
  \A p \in Procs :
    (Returned(p, "load") /\ Invoked(loc[p], "crypt_volume_key_get")) =>
      LET S == loc[p].dev[1].key
          mine == {e \in enrolled : e.secret = S}
      IN /\ \A e \in mine : loc[p].r >= 0 /\ loc[p].ret_vk = e.key
         /\ (mine = {} /\ \A k \in OtherSlots : slots[k][1].pass # Base64(S)) =>
              /\ loc[p].r = -EPERM
              /\ loc[p].ret_vk = <<>>

C3_Witness ==
  \E p \in Procs :
    /\ Returned(p, "load") /\ loc[p].r >= 0
    /\ \E e \in enrolled :
         /\ e.secret = loc[p].dev[1].key
         /\ loc[p].ret_vk = e.key
         /\ loc[p].r = e.slot

(* C4: the three flag booleans of the TokenRecord are those of the flags    *)
(* the device exchange returned (lock_with after the call), not of the      *)
(* flags the caller passed; uv-required is true whenever they contain UV.   *)
C4_EffectiveFlagsPersisted ==
  \A p \in Procs : (Returned(p, "enroll") /\ loc[p].r >= 0) =>
    /\ NewTokens(loc[p]) # {}
    /\ \A t \in NewTokens(loc[p]) :
         LET f == loc[p].dev[1].flags
             tok == tokens[t][1]
         IN /\ tok.fido2_clientPin_required = FLAGS_SET(f, FIDO2ENROLL_PIN)
            /\ tok.fido2_up_required = FLAGS_SET(f, FIDO2ENROLL_UP)
            /\ tok.fido2_uv_required = FLAGS_SET(f, FIDO2ENROLL_UV)

C4_Witness ==
  \E p \in Procs :
    /\ Returned(p, "enroll") /\ loc[p].r >= 0
    /\ loc[p].requested = FIDO2ENROLL_PIN
    /\ FLAGS_SET(loc[p].dev[1].flags, FIDO2ENROLL_UV)
    /\ \E t \in NewTokens(loc[p]) : tokens[t][1].fido2_uv_required

(* C5: a successful enroll_fido2 adds exactly one slot and exactly one      *)
(* TokenRecord, the record's slot list holds exactly the index of the new   *)
(* slot, and the call returns that index.                                   *)
C5_OneSlotOneRecord ==
  \A p \in Procs : (Returned(p, "enroll") /\ loc[p].r >= 0) =>
    /\ NewSlots(loc[p]) = {loc[p].r}
    /\ SlotsKept(loc[p])
    /\ Cardinality(NewTokens(loc[p])) = 1
    /\ TokensKept(loc[p])
    /\ \A t \in NewTokens(loc[p]) : References(t, loc[p].r)

C5_Witness ==
  \E p \in Procs :
    /\ Returned(p, "enroll") /\ loc[p].r = 1
    /\ NewSlots(loc[p]) = {1}
    /\ \E t \in NewTokens(loc[p]) : tokens[t][1].keyslots = << << "1" >> >>

(* C6 as claimed: the error enroll_fido2 returns when the slot was created  *)
(* and the metadata write failed differs from the error returned by every   *)
(* enrollment that failed at the device exchange, the encoding, the PBKDF   *)
(* setting or the slot add, so the return value alone tells the orphan.     *)
EarlyFailures == {"fido2_generate_hmac_hash", "base64mem",
                  "cryptsetup_set_minimal_pbkdf", "crypt_keyslot_add_by_volume_key"}
C6_OrphanErrorDistinct ==
  \A p \in Procs : Returned(p, "enroll") =>
    LET cur == Outcome(loc[p])
        prv == loc[p].prev
    IN /\ (cur.fail = "cryptsetup_add_token_json" /\ prv.fail \in EarlyFailures)
            => cur.r # prv.r
       /\ (prv.fail = "cryptsetup_add_token_json" /\ cur.fail \in EarlyFailures)
            => cur.r # prv.r

(* C7 as claimed: a failed slot add aborts the call before the metadata     *)
(* writer and leaves no slot added, no TokenRecord written and the          *)
(* handle's key-derivation setting as before the call.                      *)
C7_SlotAddFailureNoChange ==
  \A p \in Procs : (loc[p].op = "enroll" /\ SlotAddFailedIn(loc[p])) =>
    /\ pc[p] = "done" /\ loc[p].r < 0
    /\ ~Invoked(loc[p], "cryptsetup_add_token_json")
    /\ slots = loc[p].pre.slots
    /\ tokens = loc[p].pre.tokens
    /\ pbkdf = loc[p].pre.pbkdf

(* C7 amended: a failed slot add aborts the call before the metadata        *)
(* writer with the slot add's error and leaves no slot added and no         *)
(* TokenRecord written; the handle's key-derivation setting is the minimal  *)
(* one, which cryptsetup_set_minimal_pbkdf set before the slot add.         *)
C7_SlotAddFailureKeepsVolume ==
  \A p \in Procs : (loc[p].op = "enroll" /\ SlotAddFailedIn(loc[p])) =>
    /\ pc[p] = "done"
    /\ loc[p].r = ResultOf(loc[p], "crypt_keyslot_add_by_volume_key")
    /\ ~Invoked(loc[p], "cryptsetup_add_token_json")
    /\ slots = loc[p].pre.slots
    /\ tokens = loc[p].pre.tokens
    /\ ResultOf(loc[p], "cryptsetup_set_minimal_pbkdf") = 0
    /\ pbkdf = "minimal"

C7_Witness ==
  \E p \in Procs :
    /\ Returned(p, "enroll") /\ SlotAddFailedIn(loc[p])
    /\ loc[p].r < 0
    /\ loc[p].pre.pbkdf = "default" /\ pbkdf = "minimal"
    /\ slots = loc[p].pre.slots

(* C8: when the device exchange of an enrollment fails, enroll_fido2        *)
(* returns that error and has called nothing else: PBKDF setting, slots     *)
(* and token records are as before the call.                                *)
C8_DeviceFailureNoStorage ==
  \A p \in Procs :
    (/\ loc[p].op = "enroll"
     /\ Invoked(loc[p], "fido2_generate_hmac_hash")
     /\ ResultOf(loc[p], "fido2_generate_hmac_hash") < 0) =>
      /\ pc[p] = "done"
      /\ loc[p].r = ResultOf(loc[p], "fido2_generate_hmac_hash")
      /\ Len(loc[p].trace) = 1
      /\ slots = loc[p].pre.slots
      /\ tokens = loc[p].pre.tokens
      /\ pbkdf = loc[p].pre.pbkdf

C8_Witness ==
  \E p \in Procs :
    /\ Returned(p, "enroll")
    /\ loc[p].r = -EOWNERDEAD
    /\ Ops(loc[p]) = {"fido2_generate_hmac_hash"}
    /\ pbkdf = "default"

(* C9: load_volume_key_fido2 never changes slots, token records or the      *)
(* PBKDF setting and calls no collaborator that writes; when the device     *)
(* reports user verification blocked (-EAGAIN) it fails with that error     *)
(* and has attempted no slot operation.                                     *)
C9_LoadReadOnly ==
  \A p \in Procs : loc[p].op = "load" =>
    /\ slots = loc[p].pre.slots
    /\ tokens = loc[p].pre.tokens
    /\ pbkdf = loc[p].pre.pbkdf
    /\ Ops(loc[p]) \subseteq {"acquire_fido2_key_auto", "base64mem", "crypt_volume_key_get"}
    /\ (/\ Invoked(loc[p], "acquire_fido2_key_auto")
        /\ ResultOf(loc[p], "acquire_fido2_key_auto") = -EAGAIN) =>
         /\ pc[p] = "done"
         /\ loc[p].r = -EAGAIN
         /\ Len(loc[p].trace) = 1
         /\ loc[p].ret_vk = <<>>

C9_Witness ==
  \E p \in Procs :
    /\ Returned(p, "load")
    /\ loc[p].r = -EAGAIN
    /\ Ops(loc[p]) = {"acquire_fido2_key_auto"}
    /\ \E t \in TokenIds : tokens[t] # <<>>

(* C10: when enroll_fido2 or load_volume_key_fido2 has returned, by         *)
(* success or by any error return, each secret-bearing buffer of the call   *)
(* (secret, salt, encoded passphrase) was either never allocated or has     *)
(* been erased.                                                             *)
SecretBuffers == {"secret", "salt", "base64_encoded", "decrypted_key", "passphrase"}
C10_SecretsErased ==
  \A p \in Procs : pc[p] = "done" =>
    /\ \A b \in SecretBuffers : loc[p].mem[b] \in {"null", "erased"}
    /\ loc[p].secret = <<>> /\ loc[p].salt = <<>> /\ loc[p].base64_encoded = <<>>
    /\ loc[p].decrypted_key = <<>> /\ loc[p].passphrase = <<>>

C10_Witness ==
  \E p \in Procs :
    /\ Returned(p, "enroll") /\ loc[p].r < 0
    /\ loc[p].fail = "cryptsetup_set_minimal_pbkdf"
    /\ \A b \in {"secret", "salt", "base64_encoded"} : loc[p].mem[b] = "erased"

(* C11: a load_volume_key_fido2 call moves only along Idle ->               *)
(* MetadataLookup/DeviceExchange (acquire_fido2_key_auto) -> Decode         *)
(* (base64mem) -> Validate (crypt_volume_key_get) -> Unlocked | Rejected,   *)
(* or returns an error from a stage; a stage is entered only when the one   *)
(* before it succeeded and none is entered twice; the call starts from      *)
(* fresh locals, its steps leave the volume as it is, and its outcome is a  *)
(* function of the collaborators' responses and the slots of the volume     *)
(* only, so that a rerun with the same responses on the same volume ends    *)
(* the same way.                                                            *)
LoadEdges ==
  { <<"idle", "l_acquire">>, <<"done", "l_acquire">>,
    <<"l_acquire", "l_base64">>, <<"l_acquire", "done">>,
    <<"l_base64", "l_get">>, <<"l_base64", "done">>,
    <<"l_get", "done">> }
LoadStages == << "acquire_fido2_key_auto", "base64mem", "crypt_volume_key_get" >>
OpsOf(l) == [i \in 1..Len(l.trace) |-> l.trace[i].op]
IsPrefix(s, t) == Len(s) <= Len(t) /\ s = SubSeq(t, 1, Len(s))
RecoveryOutcome(acq, key, enc, sl) ==
  IF acq < 0 THEN [r |-> acq, vk |-> <<>>]
  ELSE IF enc < 0 THEN [r |-> -ENOMEM, vk |-> <<>>]
  ELSE LET open == {k \in SlotIds : sl[k] # <<>> /\ sl[k][1].pass = Base64(key)}
       IN IF open = {} THEN [r |-> -EPERM, vk |-> <<>>]
          ELSE [r |-> Min(open), vk |-> sl[Min(open)][1].key]
RecoveryStage(p) ==
  IF loc[p].op # "load" THEN "Idle"
  ELSE IF pc[p] = "l_acquire" THEN "MetadataLookup"
  ELSE IF pc[p] = "l_base64" THEN "Decode"
  ELSE IF pc[p] = "l_get" THEN "Validate"
  ELSE IF loc[p].r >= 0 THEN "Unlocked"
  ELSE IF loc[p].fail = "crypt_volume_key_get" THEN "Rejected"
  ELSE "Idle"
RecoveryStep(p) ==
  (loc'[p].op = "load" /\ pc'[p] # pc[p]) =>
    /\ << pc[p], pc'[p] >> \in LoadEdges
    /\ volume' = volume
    /\ pc'[p] = "l_acquire" =>
         loc'[p] = [InitLoc EXCEPT !.op = "load", !.pre = Snapshot, !.prev = loc'[p].prev]
RecoveryState(p) ==
  LET l == loc[p]
      acq == ResultOf(l, "acquire_fido2_key_auto")
      key == IF l.dev = <<>> THEN <<>> ELSE l.dev[1].key
      enc == IF Invoked(l, "base64mem") THEN ResultOf(l, "base64mem") ELSE 0
  IN l.op = "load" =>
       /\ IsPrefix(OpsOf(l), LoadStages)
       /\ Len(l.trace) = (CASE RecoveryStage(p) = "MetadataLookup" -> 0
                            [] RecoveryStage(p) = "Decode" -> 1
                            [] RecoveryStage(p) = "Validate" -> 2
                            [] RecoveryStage(p) \in {"Unlocked", "Rejected"} -> 3
                            [] OTHER -> Len(l.trace))
       /\ RecoveryStage(p) \in {"Decode", "Validate", "Unlocked", "Rejected"} =>
            /\ acq = 0
            /\ \E t \in TokenIds : IsFido2Token(l.pre.tokens[t])
            /\ l.dev # <<>>
       /\ RecoveryStage(p) \in {"Validate", "Unlocked", "Rejected"} =>
            /\ enc >= 0
            /\ l.passphrase = (IF pc[p] = "l_get" THEN Base64(key) ELSE <<>>)
       /\ pc[p] = "done" =>
            /\ [r |-> l.r, vk |-> l.ret_vk] = RecoveryOutcome(acq, key, enc, l.pre.slots)
            /\ l.decrypted_key = <<>> /\ l.passphrase = <<>>
C11_RecoveryStages ==
  [][\A p \in Procs : RecoveryStep(p) /\ RecoveryState(p)']_vars

C11_Witness ==
  \E p \in Procs :
    /\ Returned(p, "load")
    /\ OpsOf(loc[p]) = LoadStages
    /\ RecoveryStage(p) = "Rejected"
    /\ loc[p].r = -EPERM
    /\ \E t \in TokenIds : IsFido2Token(tokens[t])

(* C12 as claimed: load_volume_key_fido2 returns a failure of the device    *)
(* exchange (acquire_fido2_key_auto) without having called                  *)
(* crypt_volume_key_get, returns the wrong-secret error -EPERM only from    *)
(* crypt_volume_key_get after a successful device exchange, and two calls   *)
(* of which one failed because the FIDO2 token was not found and the other  *)
(* because user verification is blocked return different errors.            *)
WRONG_SECRET == -EPERM
C12_OutcomesDistinct ==
  /\ \A p \in Procs : loc[p].op = "load" =>
       LET l == loc[p] IN
       /\ (Invoked(l, "acquire_fido2_key_auto") /\ ResultOf(l, "acquire_fido2_key_auto") < 0) =>
            /\ pc[p] = "done"
            /\ l.r = ResultOf(l, "acquire_fido2_key_auto")
            /\ l.r # WRONG_SECRET
            /\ ~Invoked(l, "crypt_volume_key_get")
       /\ (pc[p] = "done" /\ l.r = WRONG_SECRET) =>
            /\ l.fail = "crypt_volume_key_get"
            /\ ResultOf(l, "acquire_fido2_key_auto") = 0
            /\ Invoked(l, "crypt_volume_key_get")
  /\ \A p, q \in Procs :
       (/\ Returned(p, "load") /\ loc[p].cause = "FIDO2 token does not exist"
        /\ Returned(q, "load") /\ loc[q].cause = "UV is blocked") =>
         loc[p].r # loc[q].r

(* C13: the TokenRecord a successful enroll_fido2 wrote holds the           *)
(* credential id and the salt the device exchange of that call returned,    *)
(* base64-encoded and nothing else (decoding the fields gives the bytes     *)
(* back), and its fido2-rp field is the rp_id that call passed to           *)
(* fido2_generate_hmac_hash.                                                *)
B64Index(ch) == CHOOSE i \in 0..63 : B64Alphabet[i + 1] = ch
RECURSIVE Unbase64(_)
Unbase64(text) ==
  IF Len(text) < 4 THEN <<>>
  ELSE LET a == B64Index(text[1])
           b == B64Index(text[2])
       IN IF text[3] = "=" THEN << a * 4 + (b \div 16) >>
          ELSE IF text[4] = "="
          THEN << a * 4 + (b \div 16), (b % 16) * 16 + (B64Index(text[3]) \div 4) >>
          ELSE << a * 4 + (b \div 16),
                  (b % 16) * 16 + (B64Index(text[3]) \div 4),
                  (B64Index(text[3]) % 4) * 64 + B64Index(text[4]) >>
               \o Unbase64(SubSeq(text, 5, Len(text)))
C13_RecordVerbatim ==
  \A p \in Procs : (Returned(p, "enroll") /\ loc[p].r >= 0) =>
    /\ NewTokens(loc[p]) # {}
    /\ \A t \in NewTokens(loc[p]) :
         LET d == loc[p].dev[1]
             tok == tokens[t][1]
         IN /\ tok.type = TOKEN_TYPE
            /\ tok.fido2_credential = Base64(d.cid)
            /\ Unbase64(tok.fido2_credential) = d.cid
            /\ tok.fido2_salt = Base64(d.salt)
            /\ Unbase64(tok.fido2_salt) = d.salt
            /\ tok.fido2_rp = loc[p].rp_id
            /\ tok.fido2_rp = "io.systemd.cryptsetup"

C13_Witness ==
  \E p \in Procs :
    /\ Returned(p, "enroll") /\ loc[p].r >= 0
    /\ loc[p].dev[1].cid = << 2, 3 >> /\ loc[p].dev[1].salt = << 8 >>
    /\ \E t \in NewTokens(loc[p]) :
         /\ tokens[t][1].fido2_credential = << "A", "g", "M", "=" >>
         /\ tokens[t][1].fido2_salt = << "C", "A", "=", "=" >>
         /\ tokens[t][1].fido2_rp = loc[p].rp_id

(* C14: within one enroll_fido2 or load_volume_key_fido2 call every         *)
(* collaborator is called at most once, a collaborator that failed is the   *)
(* last one called, and the call has then returned a negative value.        *)
C14_NoRetry ==
  \A p \in Procs :
    LET l == loc[p]
        n == Len(l.trace)
    IN /\ \A i, j \in 1..n : i # j => l.trace[i].op # l.trace[j].op
       /\ \A i \in 1..n : l.trace[i].rc < 0 =>
            /\ i = n
            /\ pc[p] = "done"
            /\ l.r < 0
            /\ l.fail = l.trace[i].op

C14_Witness ==
  \E p \in Procs :
    /\ Returned(p, "enroll")
    /\ Len(loc[p].trace) = 4
    /\ loc[p].trace[4] = [op |-> "crypt_keyslot_add_by_volume_key", rc |-> -EIO]
    /\ \A i \in 1..3 : loc[p].trace[i].rc >= 0
    /\ loc[p].r = -EIO

(* C15: with two callers enrolling on the same volume at once and           *)
(* libcryptsetup allocating a slot in one step, two enroll_fido2 calls      *)
(* that both succeeded returned different slot indices, each the slot that  *)
(* call added and that holds that call's passphrase, and each index is      *)
(* referenced by exactly one TokenRecord, the one built from that call's    *)
(* device answer.                                                           *)
OwnRecord(t, l) ==
  /\ References(t, l.r)
  /\ tokens[t][1].fido2_credential = Base64(l.dev[1].cid)
  /\ tokens[t][1].fido2_uv_required = FLAGS_SET(l.dev[1].flags, FIDO2ENROLL_UV)
C15_DistinctSlots ==
  \A p, q \in Procs :
    (/\ p # q
     /\ Returned(p, "enroll") /\ loc[p].r >= 0
     /\ Returned(q, "enroll") /\ loc[q].r >= 0) =>
      /\ loc[p].r # loc[q].r
      /\ loc[p].added = {loc[p].r}
      /\ slots[loc[p].r] = << [pass |-> Base64(loc[p].dev[1].secret), key |-> master] >>
      /\ \E t \in TokenIds : OwnRecord(t, loc[p])
      /\ Cardinality({t \in TokenIds : References(t, loc[p].r)}) = 1
      /\ \A t \in TokenIds : References(t, loc[p].r) => ~References(t, loc[q].r)

C15_Witness ==
  /\ \A p \in Procs :
       /\ Returned(p, "enroll") /\ loc[p].r >= 0
       /\ FreeSlots(loc[p].pre.slots) = SlotIds
       /\ \E t \in TokenIds : OwnRecord(t, loc[p])
  /\ loc[1].r # loc[2].r
  /\ loc[1].dev[1].flags # loc[2].dev[1].flags

(* C16: enroll_fido2 calls its collaborators in the order device exchange,  *)
(* base64mem, cryptsetup_set_minimal_pbkdf, crypt_keyslot_add_by_volume_key,*)
(* asprintf, sd_json_buildo, cryptsetup_add_token_json; when the slot add   *)
(* is called the PBKDF has been set to minimal successfully, and when       *)
(* setting it failed the call has returned that error without calling the  *)
(* slot add or the token write and without changing slots or tokens.        *)
EnrollStages ==
  << "fido2_generate_hmac_hash", "base64mem", "cryptsetup_set_minimal_pbkdf",
     "crypt_keyslot_add_by_volume_key", "asprintf", "sd_json_buildo",
     "cryptsetup_add_token_json" >>
C16_EnrollOrder ==
  \A p \in Procs : loc[p].op = "enroll" =>
    LET l == loc[p] IN
    /\ IsPrefix(OpsOf(l), EnrollStages)
    /\ Invoked(l, "crypt_keyslot_add_by_volume_key") =>
         /\ ResultOf(l, "cryptsetup_set_minimal_pbkdf") = 0
         /\ pbkdf = "minimal"
    /\ (Invoked(l, "cryptsetup_set_minimal_pbkdf")
        /\ ResultOf(l, "cryptsetup_set_minimal_pbkdf") < 0) =>
         /\ pc[p] = "done"
         /\ l.r = ResultOf(l, "cryptsetup_set_minimal_pbkdf")
         /\ ~Invoked(l, "crypt_keyslot_add_by_volume_key")
         /\ ~Invoked(l, "cryptsetup_add_token_json")
         /\ l.added = {}
         /\ slots = l.pre.slots /\ tokens = l.pre.tokens

C16_Witness ==
  \E p \in Procs :
    /\ Returned(p, "enroll")
    /\ OpsOf(loc[p]) = SubSeq(EnrollStages, 1, 3)
    /\ loc[p].r = -EIO
    /\ pbkdf = "default"
    /\ FreeSlots(slots) # {}

(* C17: when asprintf, sd_json_buildo or cryptsetup_add_token_json fails    *)
(* after crypt_keyslot_add_by_volume_key succeeded, enroll_fido2 has        *)
(* returned a negative value having called no further collaborator (none    *)
(* that removes the slot either): the slot it added is still there under    *)
(* the call's passphrase and no TokenRecord references it.                  *)
LateFailures == {"asprintf", "sd_json_buildo", "cryptsetup_add_token_json"}
FailedAt(l, name) == Invoked(l, name) /\ ResultOf(l, name) < 0
C17_LateFailureLeavesOrphan ==
  \A p \in Procs : loc[p].op = "enroll" =>
    LET l == loc[p] IN
    \A f \in LateFailures : FailedAt(l, f) =>
      /\ pc[p] = "done"
      /\ l.r < 0
      /\ l.fail = f
      /\ l.trace[Len(l.trace)].op = f
      /\ IsPrefix(OpsOf(l), EnrollStages)
      /\ ResultOf(l, "crypt_keyslot_add_by_volume_key") >= 0
      /\ l.added = {ResultOf(l, "crypt_keyslot_add_by_volume_key")}
      /\ \A k \in l.added :
           /\ slots[k] = << [pass |-> Base64(l.dev[1].secret), key |-> l.volume_key] >>
           /\ \A t \in TokenIds : ~References(t, k)

C17_Witness ==
  \E p, q \in Procs :
    /\ Returned(p, "enroll") /\ loc[p].fail = "asprintf" /\ loc[p].r = -ENOMEM
    /\ Returned(q, "enroll") /\ loc[q].fail = "sd_json_buildo" /\ loc[q].r < 0
    /\ loc[p].added # {} /\ loc[q].added # {} /\ loc[p].added # loc[q].added
    /\ \A k \in loc[p].added \cup loc[q].added :
         slots[k] # <<>> /\ \A t \in TokenIds : ~References(t, k)

(* C18: enroll_fido2 has returned a non-negative value exactly when all     *)
(* seven steps (device exchange, base64mem, PBKDF setting, slot add,        *)
(* asprintf, record build, token write) were made and succeeded; the value  *)
(* is then the index of a slot this call added, which a TokenRecord written *)
(* during the call references; a call one of whose steps failed makes no    *)
(* further step and returns a negative value.                               *)
AllStepsSucceeded(l) ==
  /\ OpsOf(l) = EnrollStages
  /\ \A i \in 1..Len(l.trace) : l.trace[i].rc >= 0
C18_SuccessMeansAllSteps ==
  \A p \in Procs : loc[p].op = "enroll" =>
    LET l == loc[p] IN
    /\ (\E i \in 1..Len(l.trace) : l.trace[i].rc < 0) => (pc[p] = "done" /\ l.r < 0)
    /\ pc[p] = "done" =>
         /\ l.r >= 0 <=> AllStepsSucceeded(l)
         /\ l.r >= 0 =>
              /\ l.added = {l.r}
              /\ slots[l.r] # <<>>
              /\ \E t \in NewTokens(l) : References(t, l.r)

C18_Witness ==
  \E p \in Procs :
    /\ Returned(p, "enroll")
    /\ AllStepsSucceeded(loc[p])
    /\ loc[p].r = loc[p].trace[4].rc
    /\ slots[loc[p].r] # <<>>
    /\ \E t \in NewTokens(loc[p]) : References(t, loc[p].r)

(* C19: the passphrase given to libcryptsetup is base64mem of the secret    *)
(* the device returned in the same call: the slot enroll_fido2 added is     *)
(* protected by the encoding of the secret of its credential generation,    *)
(* and load_volume_key_fido2 calls crypt_volume_key_get only after the      *)
(* device exchange and the encoding succeeded, with the encoding of the     *)
(* re-derived secret, and succeeds exactly when some slot, whatever its     *)
(* index, opens with it.                                                    *)
C19_PassphraseIsEncodedSecret ==
  \A p \in Procs :
    LET l == loc[p] IN
    /\ (l.op = "enroll" /\ Invoked(l, "crypt_keyslot_add_by_volume_key")) =>
         /\ ResultOf(l, "fido2_generate_hmac_hash") = 0
         /\ ResultOf(l, "base64mem") = Len(Base64(l.dev[1].secret))
         /\ \A k \in l.added :
              slots[k] = << [pass |-> Base64(l.dev[1].secret), key |-> l.volume_key] >>
    /\ (l.op = "load" /\ pc[p] = "l_get") =>
         /\ ResultOf(l, "acquire_fido2_key_auto") = 0
         /\ ResultOf(l, "base64mem") = Len(Base64(l.dev[1].key))
         /\ GetPassphrase(l) = Base64(l.dev[1].key)
    /\ (l.op = "load" /\ Invoked(l, "crypt_volume_key_get")) =>
         /\ ResultOf(l, "acquire_fido2_key_auto") = 0
         /\ ResultOf(l, "base64mem") >= 0
         /\ l.r >= 0 <=> (\E k \in SlotIds : k \in OpenedBy(slots, Base64(l.dev[1].key)))
         /\ l.r >= 0 => l.r \in OpenedBy(slots, Base64(l.dev[1].key))

C19_Witness ==
  \E p \in Procs :
    /\ Returned(p, "load")
    /\ Invoked(loc[p], "crypt_volume_key_get")
    /\ loc[p].r = 1
    /\ slots[1][1].pass = Base64(loc[p].dev[1].key)
    /\ slots[0] # <<>> /\ slots[0][1].pass # Base64(loc[p].dev[1].key)
    /\ \E e \in enrolled : e.slot = 1 /\ e.secret = loc[p].dev[1].key

====
